---- MODULE Spec2Model ----
(***************************************************************************)
(* herb-market: the stock generator (generate_stock) and the presentation  *)
(* steps of main (sort by name, render rows), as a state machine.          *)
(*                                                                         *)
(* Uniform f32 samples of [0,1) and likelihoods are points k/SampleGrid of *)
(* a grid: a sample is k in 0..SampleGrid-1, a likelihood k in             *)
(* 0..SampleGrid (SampleGrid stands for 1.0; likelihoods outside [0,1]     *)
(* behave as 0.0 or 1.0 do and are left out).  Strings are sequences of    *)
(* bytes.  u16 values are integers below U16Modulus.                       *)
(*                                                                         *)
(* Spec bounds each quantity draw to MaxQuantity successes; LoopSpec runs  *)
(* the draw over the counter's whole u16 range on a small set of configs.  *)
(***************************************************************************)
EXTENDS Integers, Sequences, FiniteSets, Bags, TLC

VARIABLES cfg,              \* the parsed Config (immutable once loaded)
          pc,               \* position of control in main / generate_stock
          i,                \* index in cfg.herbs of the herb being processed
          effective_rarity, \* generate_stock's local of that name
          rarity_config,    \* generate_stock's local of that name
          quantity,         \* generate_stock's u16 counter
          sample,           \* the uniform sample tested last by the while condition
          stock,            \* generate_stock's result vector
          main_stock,       \* main's `stock`: the returned vector, then sorted in place
          table             \* the rows added to the table

vars == <<cfg, pc, i, effective_rarity, rarity_config, quantity, sample, stock,
          main_stock, table>>

----------------------------------------------------------------------------
(* Bounds of the model *)

MaxHerbs == 2

MaxQuantity == 2

MaxPrice == 2

SampleGrid == 2

(* Program constants *)

U16Bits == 16

U16Modulus == 2 ^ U16Bits

NoValue == "none"

----------------------------------------------------------------------------
(* Data model *)

Rarity == {"Common", "Uncommon", "Rare", "VeryRare"}

Biome == {"MostTerrain", "Coastal", "Underdark", "Desert", "Mountain", "Swamp",
          "Forest", "Arctic", "Hills", "Grasslands"}

\* next_rarity as a saturating successor: VeryRare stays VeryRare
next_rarity_saturating(r) ==
    CASE r = "Common" -> "Uncommon"
      [] r = "Uncommon" -> "Rare"
      [] r = "Rare" -> "VeryRare"
      [] r = "VeryRare" -> "VeryRare"

\* None for VeryRare is NoValue
next_rarity(r) ==
    CASE r = "Common" -> "Uncommon"
      [] r = "Uncommon" -> "Rare"
      [] r = "Rare" -> "VeryRare"
      [] r = "VeryRare" -> NoValue

\* price_range without its lower bound
price_range_from_zero(rc) == 0 .. rc.price_upper

\* RarityConfig::price_range: the inclusive range lower..=upper (empty when lower > upper)
price_range(rc) == rc.price_lower .. rc.price_upper

\* RarityConfigs::config
config(rarities, r) ==
    CASE r = "Common" -> rarities.common
      [] r = "Uncommon" -> rarities.uncommon
      [] r = "Rare" -> rarities.rare
      [] r = "VeryRare" -> rarities.very_rare

----------------------------------------------------------------------------
(* The inputs the model draws configurations from *)

Samples == 0 .. (SampleGrid - 1)

Likelihoods == 0 .. SampleGrid

Prices == 1 .. MaxPrice

\* "a", "ab", "b"
Names == {<<97>>, <<97, 98>>, <<98>>}

BiomeLists == {<<>>, <<"Forest">>, <<"Desert">>, <<"Desert", "Forest">>}

RarityConfigSet ==
    [price_lower : Prices, price_upper : Prices, likelihood : Likelihoods]

HerbSet == [name : Names, rarity : Rarity, biomes : BiomeLists]

\* every tier configured alike, but for one tier
RarityConfigsSet ==
    { [common    |-> IF t = "Common" THEN rc ELSE base,
       uncommon  |-> IF t = "Uncommon" THEN rc ELSE base,
       rare      |-> IF t = "Rare" THEN rc ELSE base,
       very_rare |-> IF t = "VeryRare" THEN rc ELSE base] :
          t \in Rarity, rc \in RarityConfigSet, base \in RarityConfigSet }

\* one-herb catalogs under every rarity table of RarityConfigsSet
DrawConfigs ==
    { [local_biomes |-> lb, rarities |-> rs, herbs |-> <<h>>] :
          lb \in {{}, {"Forest"}},
          rs \in RarityConfigsSet,
          h \in {x \in HerbSet : x.name = <<97>>} }

\* a rarity table whose tiers differ in their prices
CatalogRarityConfigs ==
    [common    |-> [price_lower |-> 1, price_upper |-> 1, likelihood |-> 1],
     uncommon  |-> [price_lower |-> MaxPrice, price_upper |-> MaxPrice, likelihood |-> 1],
     rare      |-> [price_lower |-> 1, price_upper |-> 1, likelihood |-> 1],
     very_rare |-> [price_lower |-> MaxPrice, price_upper |-> MaxPrice, likelihood |-> 1]]

CatalogHerbs == { h \in HerbSet : h.biomes \in {<<>>, <<"Forest">>} }

Catalogs == UNION { [1 .. n -> CatalogHerbs] : n \in 0 .. MaxHerbs }

\* catalogs of up to MaxHerbs herbs under one rarity table
CatalogConfigs ==
    { [local_biomes |-> {"Forest"},
       rarities |-> CatalogRarityConfigs,
       herbs |-> hs] :
          hs \in Catalogs }

ConfigSet == DrawConfigs \cup CatalogConfigs

\* one herb, every tier configured alike with a one-price range
LoopConfigs ==
    { [local_biomes |-> {"Forest"},
       rarities |-> [common |-> rc, uncommon |-> rc, rare |-> rc, very_rare |-> rc],
       herbs |-> <<h>>] :
          rc \in {x \in RarityConfigSet : x.price_lower = 1 /\ x.price_upper = 1},
          h \in {x \in HerbSet : /\ x.name = <<97>>
                                  /\ x.rarity \in {"Common", "VeryRare"}
                                  /\ x.biomes = IF x.rarity = "Common"
                                                THEN <<"Forest">> ELSE <<"Desert">>} }

----------------------------------------------------------------------------
(* Helpers of generate_stock *)

\* is_local looking at the first biome only
is_local_first(herb, local_biomes) ==
    herb.biomes # <<>> /\ herb.biomes[1] \in local_biomes

\* herb.biomes.iter().any(|b| cfg.local_biomes.contains(&b))
is_local(herb, local_biomes) ==
    \E k \in DOMAIN herb.biomes : herb.biomes[k] \in local_biomes

\* the while condition with <= for <
ContinuesLeq(s, likelihood) == s <= likelihood

\* the while condition: sample < likelihood
Continues(s, likelihood) == s < likelihood

\* quantity += 1 on a u16: below the maximum the sum; at the maximum a panic
\* (overflow checks on, the debug profile) or a wrap to 0 (the release profile)
AddOne(q) ==
    IF q + 1 < U16Modulus
    THEN {[panic |-> FALSE, value |-> q + 1]}
    ELSE {[panic |-> TRUE, value |-> q], [panic |-> FALSE, value |-> 0]}

\* rng.gen_range(range) for an inclusive u16 range: a value of the range, or
\* a panic ("cannot sample empty range") when the range is empty
GenRange(range) ==
    IF range = {}
    THEN {[panic |-> TRUE, value |-> 0]}
    ELSE {[panic |-> FALSE, value |-> p] : p \in range}

HerbStock(herb, q, price) == [herb |-> herb, quantity |-> q, price |-> price]

\* the entry put in front
PushFront(s, entry) == <<entry>> \o s

\* stock.push(entry)
Push(s, entry) == Append(s, entry)

----------------------------------------------------------------------------
(* Helpers of main *)

\* the shorter string first, whatever the bytes
LexLeqShortFirst(a, b) == Len(a) <= Len(b)

RECURSIVE LexLeq(_, _)
\* Ord on String: byte-wise lexicographic, a proper prefix first
LexLeq(a, b) ==
    IF a = <<>> THEN TRUE
    ELSE IF b = <<>> THEN FALSE
    ELSE IF a[1] # b[1] THEN a[1] < b[1]
    ELSE LexLeq(Tail(a), Tail(b))

sort_key(herb_stock) == herb_stock.herb.name

RECURSIVE InsertSorted(_, _)
\* e placed behind every element whose key is <= its own
InsertSorted(e, s) ==
    IF s = <<>> THEN <<e>>
    ELSE IF LexLeq(sort_key(s[1]), sort_key(e))
         THEN <<s[1]>> \o InsertSorted(e, Tail(s))
         ELSE <<e>> \o s

RECURSIVE sort_by_key(_)
\* slice::sort_by_key: a stable sort by the key
sort_by_key(s) ==
    IF s = <<>> THEN <<>>
    ELSE LET n == Len(s)
         IN InsertSorted(s[n], sort_by_key(SubSeq(s, 1, n - 1)))

RECURSIVE Format(_)
\* format!("{}", n): the decimal digits of n, as bytes
Format(n) ==
    IF n < 10 THEN <<48 + n>>
    ELSE Format(n \div 10) \o <<48 + (n % 10)>>

Row(herb_stock) ==
    <<herb_stock.herb.name, Format(herb_stock.quantity), Format(herb_stock.price)>>

----------------------------------------------------------------------------
(* Initial state: the config is loaded, generate_stock is entered *)

InitLocals ==
    /\ pc = "for"
    /\ i = 1
    /\ effective_rarity = NoValue
    /\ rarity_config = NoValue
    /\ quantity = 0
    /\ sample = NoValue
    /\ stock = <<>>
    /\ main_stock = <<>>
    /\ table = <<>>

Init == cfg \in ConfigSet /\ InitLocals

----------------------------------------------------------------------------
(* generate_stock *)

\* a non-local VeryRare herb: continue
SkipUnavailable ==
    /\ pc = "for"
    /\ i <= Len(cfg.herbs)
    /\ ~is_local(cfg.herbs[i], cfg.local_biomes)
    /\ next_rarity(cfg.herbs[i].rarity) = NoValue
    /\ i' = i + 1
    /\ UNCHANGED <<cfg, pc, effective_rarity, rarity_config, quantity, sample, stock,
                   main_stock, table>>

\* the effective rarity and its config are chosen, the counter starts at 0
BeginHerb ==
    /\ pc = "for"
    /\ i <= Len(cfg.herbs)
    /\ LET herb == cfg.herbs[i]
           er == IF is_local(herb, cfg.local_biomes)
                 THEN herb.rarity
                 ELSE next_rarity(herb.rarity)
       IN /\ er # NoValue
          /\ effective_rarity' = er
          /\ rarity_config' = config(cfg.rarities, er)
    /\ quantity' = 0
    /\ sample' = NoValue
    /\ pc' = "while"
    /\ UNCHANGED <<cfg, i, stock, main_stock, table>>

\* the while condition draws s and holds: quantity += 1
DrawSuccess(s) ==
    /\ pc = "while"
    /\ Continues(s, rarity_config.likelihood)
    /\ sample' = s
    /\ \E r \in AddOne(quantity) :
          /\ quantity' = r.value
          /\ pc' = IF r.panic THEN "panic_overflow" ELSE "while"
    /\ UNCHANGED <<cfg, i, effective_rarity, rarity_config, stock, main_stock, table>>

\* the while condition draws s and fails; a quantity of 0: continue
DrawStop(s) ==
    /\ pc = "while"
    /\ ~Continues(s, rarity_config.likelihood)
    /\ sample' = s
    /\ IF quantity = 0
       THEN pc' = "for" /\ i' = i + 1
       ELSE pc' = "price" /\ i' = i
    /\ UNCHANGED <<cfg, effective_rarity, rarity_config, quantity, stock, main_stock,
                   table>>

\* the price is drawn from the config's range and the entry is pushed
DrawPrice ==
    /\ pc = "price"
    /\ \E r \in GenRange(price_range(rarity_config)) :
          IF r.panic
          THEN /\ pc' = "panic_empty_range"
               /\ UNCHANGED <<i, stock>>
          ELSE /\ stock' = Push(stock, HerbStock(cfg.herbs[i], quantity, r.value))
               /\ i' = i + 1
               /\ pc' = "for"
    /\ sample' = NoValue
    /\ UNCHANGED <<cfg, effective_rarity, rarity_config, quantity, main_stock, table>>

\* the catalog is exhausted: stock is returned to main
Return ==
    /\ pc = "for"
    /\ i > Len(cfg.herbs)
    /\ main_stock' = stock
    /\ pc' = "sort"
    /\ UNCHANGED <<cfg, i, effective_rarity, rarity_config, quantity, sample, stock,
                   table>>

----------------------------------------------------------------------------
(* main, after generate_stock *)

Sort ==
    /\ pc = "sort"
    /\ main_stock' = sort_by_key(main_stock)
    /\ pc' = "render"
    /\ UNCHANGED <<cfg, i, effective_rarity, rarity_config, quantity, sample, stock,
                   table>>

Render ==
    /\ pc = "render"
    /\ table' = [k \in 1 .. Len(main_stock) |-> Row(main_stock[k])]
    /\ pc' = "done"
    /\ UNCHANGED <<cfg, i, effective_rarity, rarity_config, quantity, sample, stock,
                   main_stock>>

----------------------------------------------------------------------------
(* Specifications *)

\* the run of at most MaxQuantity successes per herb
Next ==
    \/ SkipUnavailable
    \/ BeginHerb
    \/ \E s \in Samples : quantity < MaxQuantity /\ DrawSuccess(s)
    \/ \E s \in Samples : DrawStop(s)
    \/ DrawPrice
    \/ Return
    \/ Sort
    \/ Render

Spec == Init /\ [][Next]_vars

InitLoop == cfg \in LoopConfigs /\ InitLocals

\* the run with the counter's whole u16 range
NextLoop ==
    \/ SkipUnavailable
    \/ BeginHerb
    \/ \E s \in Samples : DrawSuccess(s)
    \/ \E s \in Samples : DrawStop(s)
    \/ DrawPrice
    \/ Return
    \/ Sort
    \/ Render

LoopSpec == InitLoop /\ [][NextLoop]_vars

----------------------------------------------------------------------------
(* Claims *)

\* The claims' own terms, stated apart from the operators above.

\* h has a biome among the local biomes
ClaimLocal(h) == \E k \in 1 .. Len(h.biomes) : h.biomes[k] \in cfg.local_biomes

TierAbove == [Common |-> "Uncommon", Uncommon |-> "Rare", Rare |-> "VeryRare"]

\* h is a VeryRare herb with no local biome
ClaimUnavailable(h) == h.rarity = "VeryRare" /\ ~ClaimLocal(h)

\* the tier a herb is drawn under (for a herb that is not unavailable)
ClaimEffective(h) == IF ClaimLocal(h) THEN h.rarity ELSE TierAbove[h.rarity]

\* the RarityConfig the table holds for a tier
ClaimTierConfig(t) ==
    IF t = "Common" THEN cfg.rarities.common
    ELSE IF t = "Uncommon" THEN cfg.rarities.uncommon
    ELSE IF t = "Rare" THEN cfg.rarities.rare
    ELSE cfg.rarities.very_rare

\* a <= b in the lexicographic order of byte strings
NameLeq(a, b) ==
    \/ Len(a) <= Len(b) /\ \A k \in 1 .. Len(a) : a[k] = b[k]
    \/ \E j \in 1 .. Len(a) :
          /\ j <= Len(b)
          /\ \A k \in 1 .. (j - 1) : a[k] = b[k]
          /\ a[j] < b[j]

\* the elements of a sequence with their multiplicities
BagOfSeq(s) ==
    [x \in {s[k] : k \in DOMAIN s} |-> Cardinality({k \in DOMAIN s : s[k] = x})]

\* s can be had from t by dropping elements
IsSubsequence(s, t) ==
    \E f \in [1 .. Len(s) -> 1 .. Len(t)] :
        /\ \A k \in 1 .. Len(s) : s[k] = t[f[k]]
        /\ \A k \in 1 .. (Len(s) - 1) : f[k] < f[k + 1]

\* C1: every entry of the list generate_stock builds has a quantity of at least
\* 1 and a price within the bounds of the RarityConfig of its herb's effective
\* rarity.
C1_EntryBounds ==
    \A k \in 1 .. Len(stock) :
        LET e == stock[k]
        IN /\ e.quantity >= 1
           /\ ~ClaimUnavailable(e.herb) =>
                 LET rc == ClaimTierConfig(ClaimEffective(e.herb))
                 IN rc.price_lower <= e.price /\ e.price <= rc.price_upper

C1_Witness ==
    /\ pc = "done"
    /\ Len(stock) = 1
    /\ stock[1].quantity = MaxQuantity
    /\ ClaimTierConfig(ClaimEffective(stock[1].herb)).price_lower < stock[1].price

\* C2: while a herb is under its quantity or price draw, the RarityConfig in use
\* is that of the herb's declared rarity if one of its biomes is local, and that
\* of the next tier above otherwise (an empty biome list is not local).
C2_EffectiveRarity ==
    pc \in {"while", "price"} =>
        LET h == cfg.herbs[i]
        IN /\ ~ClaimUnavailable(h)
           /\ effective_rarity = ClaimEffective(h)
           /\ rarity_config = ClaimTierConfig(ClaimEffective(h))

C2_Witness ==
    /\ pc = "price"
    /\ cfg.herbs[i].biomes = <<"Desert", "Forest">>
    /\ effective_rarity = "Rare"
    /\ rarity_config # cfg.rarities.very_rare

\* C3: no entry of the stock is a VeryRare herb without a local biome.
C3_UnavailableNeverStocked ==
    \A k \in 1 .. Len(stock) : ~ClaimUnavailable(stock[k].herb)

C3_Witness ==
    /\ pc = "done"
    /\ \E j \in 1 .. Len(cfg.herbs) : ClaimUnavailable(cfg.herbs[j])
    /\ \E k \in 1 .. Len(stock) : stock[k].herb.rarity = "VeryRare"

\* C4: under a tier whose likelihood is 0.0 the quantity stays 0 and the price
\* draw is never reached, and no entry of the stock was drawn under such a tier.
C4_ZeroLikelihood ==
    /\ (pc \in {"while", "price"} /\ rarity_config.likelihood = 0) =>
          (quantity = 0 /\ pc = "while")
    /\ \A k \in 1 .. Len(stock) :
          ~ClaimUnavailable(stock[k].herb) =>
             ClaimTierConfig(ClaimEffective(stock[k].herb)).likelihood # 0

C4_Witness ==
    /\ pc = "done"
    /\ Len(cfg.herbs) = 1
    /\ effective_rarity # NoValue
    /\ rarity_config.likelihood = 0
    /\ stock = <<>>

\* C5: the rendered rows are in ascending order of herb name, and they are the
\* rows of the entries generate_stock returned, each as often as it was returned.
C5_RowsSorted ==
    pc = "done" =>
        /\ \A k \in 1 .. (Len(table) - 1) : NameLeq(table[k][1], table[k + 1][1])
        /\ BagOfSeq(table) = BagOfSeq([k \in 1 .. Len(stock) |-> Row(stock[k])])

C5_Witness ==
    /\ pc = "done"
    /\ Len(stock) = 2
    /\ stock[1].herb.name = <<98>>
    /\ stock[2].herb.name = <<97, 98>>
    /\ table[1][1] = <<97, 98>>

Panicked == pc \in {"panic_overflow", "panic_empty_range"}

\* C7: generate_stock never panics: the price draw never meets an empty range
\* and the u16 quantity counter never overflows.
C7_NeverPanics == ~Panicked

\* C8: generate_stock terminates under a fair random source: wherever the
\* quantity loop runs, some sample of [0,1) is at or above the likelihood, so
\* that a source that yields every sample ends the loop.
C8_LoopCanStop ==
    pc = "while" => \E s \in Samples : s >= rarity_config.likelihood

\* C9: in a draw that completes, a sample strictly below the likelihood adds
\* exactly one to the quantity and the loop goes on, the first sample at or above
\* it ends the loop with the quantity as counted (which starts at 0); the price
\* is drawn only from there, and only for a quantity that is not 0.
C9_QuantityCountsSuccesses ==
    [][/\ (pc = "for" /\ pc' = "while") => quantity' = 0
       /\ (pc = "while" /\ pc' # "panic_overflow") =>
             /\ sample' \in Samples
             /\ sample' < rarity_config.likelihood =>
                   quantity' = quantity + 1 /\ pc' = "while"
             /\ sample' >= rarity_config.likelihood =>
                   quantity' = quantity /\ pc' # "while"
       /\ pc' = "price" => pc \in {"while", "price"} /\ quantity' # 0
       /\ (pc = "price" /\ pc' = "for") => Len(stock') = Len(stock) + 1
                                            /\ stock'[Len(stock')].quantity = quantity
      ]_vars

\* C10: the stock is a subsequence of the catalog herbs already passed, each
\* entry's herb being the catalog herb as it stands; the stock changes only by
\* one entry for the current herb added at its end, when that herb has passed
\* the rarity step and drawn a quantity that is not 0, and every such herb whose
\* price draw completes adds its entry; the catalog is passed one herb at a time.
C10_Subsequence ==
    /\ [](IsSubsequence([k \in 1 .. Len(stock) |-> stock[k].herb],
                        SubSeq(cfg.herbs, 1, i - 1)))
    /\ [][/\ stock' # stock =>
               /\ pc = "price"
               /\ quantity # 0
               /\ Len(stock') = Len(stock) + 1
               /\ SubSeq(stock', 1, Len(stock)) = stock
               /\ stock'[Len(stock')].herb = cfg.herbs[i]
               /\ i' = i + 1
          /\ (pc = "price" /\ pc' = "for") => stock' # stock
          /\ i' # i => i' = i + 1
         ]_vars

C10_Witness ==
    /\ pc = "done"
    /\ Len(cfg.herbs) = 2
    /\ Len(stock) = 1
    /\ stock[1].herb = cfg.herbs[2]
    /\ cfg.herbs[1] # cfg.herbs[2]

====
